---- MODULE Spec2Model ----
(***************************************************************************)
(* A model of the lzhhf encoder (src/lzhhf1.c): command line, buffers,     *)
(* hash-chained sliding window, match search, code emission, slide/rehash  *)
(* and look-ahead refill.                                                  *)
(*                                                                         *)
(* The bit writer (gtbitio2.c), the hash lists (lzhash.c), the MTF table   *)
(* (mtf.c) and the byte reader are included by the source but are not part *)
(* of it; they are modelled from the specification.  The FGK coder         *)
(* (adhfgk2.c) is kept abstract: a call fgk_encode_symbol(r) appends the   *)
(* token <<"fgk", r>> to the output.                                       *)
(***************************************************************************)
EXTENDS Integers, Sequences, FiniteSets, TLC

(* ------------------------------------------------------------------ *)
(* Program constants                                                  *)
(* ------------------------------------------------------------------ *)
LTCB == 17
MIN_LEN == 4
MTF_SIZE == 256
NMATCH == 196
FAR_LIST_BITS == 12
HASH_BYTES_N == 4
MFOLD == 2
MIN_BITS == 12
MAX_BITS == 20
LZ_NULL == -1
EOF == -1
(* a slot of the malloc'ed look-ahead buffer that was never written *)
UNINIT == -2

(* ------------------------------------------------------------------ *)
(* Bounds of the exploration                                          *)
(* ------------------------------------------------------------------ *)
(* longest short input file *)
MaxLen == 5
(* longest tail after the zero run of a long input file *)
MaxTail == 1
(* largest length code of the length-code specification *)
MaxCode == 11

(* byte values the input files and uninitialized memory are drawn from *)
Alphabet == {0, 65}

(* ------------------------------------------------------------------ *)
(* Integer helpers: shifts and bitwise operators on naturals          *)
(* ------------------------------------------------------------------ *)
RECURSIVE Pow2Rec(_)
Pow2Rec(n) == IF n = 0 THEN 1 ELSE 2 * Pow2Rec(n - 1)

Pow2Table == [n \in 0..31 |-> Pow2Rec(n)]

(* 1 << n *)
Pow2(n) == Pow2Table[n]

Shl(x, n) == x * Pow2(n)
Shr(x, n) == x \div Pow2(n)

RECURSIVE Xor(_, _)
Xor(a, b) ==
    IF a = 0 THEN b
    ELSE IF b = 0 THEN a
    ELSE ((a + b) % 2) + 2 * Xor(a \div 2, b \div 2)

(* x & mask for mask = 2^k - 1 *)
AndMask(x, mask) == x % (mask + 1)

FAR_LIST == Pow2(FAR_LIST_BITS)

(* all sequences over S of length 0..n *)
SeqsUpTo(S, n) == UNION { [1..k -> S] : k \in 0..n }

Zeros(n) == [k \in 1..n |-> 0]

(* ------------------------------------------------------------------ *)
(* State                                                              *)
(* ------------------------------------------------------------------ *)
VARIABLES
    pc,            \* position in main()
    argc, argv1,   \* command line: argument count; argv[1] as [dash, n]
    infile,        \* contents of the input file
    exit_status,   \* process exit status, -1 while running
    failure,       \* which failure path was taken, "" if none
    num_POS_BITS,
    win_BUFSIZE, win_MASK, hash_SHIFT, pat_BUFSIZE, pat_MASK,
    win_buf, pattern,
    lzhash, lznext, lzprev,
    win_cnt, pat_cnt, buf_cnt,
    dpos,
    mtf_list,      \* the MTF table
    fpos,          \* bytes of the input file consumed so far
    out,           \* tokens written to the output: <<"bit", b>> or <<"fgk", r>>
    steps,         \* history: the encoder's step sequence
    last,          \* history: facts about the step just encoded
    code_pair,      \* a pair of length codes (the length-code specification)
    code_bits       \* the bits put_codes() sends for each of them

vars == <<pc, argc, argv1, infile, exit_status, failure, num_POS_BITS,
          win_BUFSIZE, win_MASK, hash_SHIFT, pat_BUFSIZE, pat_MASK, win_buf, pattern, lzhash, lznext, lzprev, win_cnt, pat_cnt, buf_cnt,
          dpos, mtf_list, fpos, out, steps, last, code_pair, code_bits>>

givenVars == <<argc, argv1, infile, code_pair, code_bits>>
sizeVars == <<num_POS_BITS, win_BUFSIZE, win_MASK, hash_SHIFT, pat_BUFSIZE,
              pat_MASK>>
bufVars == <<win_buf, pattern, lzhash, lznext, lzprev, win_cnt, pat_cnt,
             buf_cnt, dpos, mtf_list, fpos, out, steps, last>>

(* ------------------------------------------------------------------ *)
(* Arrays.  A buffer of the program is a record [base, set]: set maps  *)
(* the indices written since the buffer was set up to their values,   *)
(* and base says what the other elements hold:                        *)
(*   "zero"    0, after memset(win_buf, 0, win_BUFSIZE)               *)
(*   "uninit"  UNINIT, after malloc                                   *)
(*   "null"    LZ_NULL                                                *)
(*   "down"    lznext after the search list is set up: i-1            *)
(*   "up"      lzprev after the search list is set up: i+1            *)
(* ------------------------------------------------------------------ *)
Base(kind, i) ==
    IF kind = "zero" THEN 0
    ELSE IF kind = "uninit" THEN UNINIT
    ELSE IF kind = "null" THEN LZ_NULL
    ELSE IF kind = "down" THEN (IF i = 0 THEN LZ_NULL ELSE i - 1)
    ELSE (IF i = win_BUFSIZE - 1 THEN LZ_NULL ELSE i + 1)

(* a buffer all of whose elements are as base says *)
Fresh(kind) == [base |-> kind, set |-> <<>>]

(* a[i] *)
At(a, i) == IF i \in DOMAIN a.set THEN a.set[i] ELSE Base(a.base, i)

(* a[i] = v *)
Put(a, i, v) == [a EXCEPT !.set = (i :> v) @@ a.set]

(* ------------------------------------------------------------------ *)
(* The 4-byte hash                                                    *)
(* ------------------------------------------------------------------ *)
Hash4(b0, b1, b2, b3, shift, mask2) ==
    AndMask(Xor(Xor(Shl(b0, shift), Shl(b1, 7)), Xor(Shl(b2, 4), b3)), mask2)

(* hash(win_buf, pos, win_MASK, win_MASK) on a window w *)
WinHash(w, pos) ==
    Hash4(At(w, AndMask(pos, win_MASK)), At(w, AndMask(pos + 1, win_MASK)),
          At(w, AndMask(pos + 2, win_MASK)), At(w, AndMask(pos + 3, win_MASK)),
          hash_SHIFT, win_MASK)

(* ------------------------------------------------------------------ *)
(* Hash lists: a record [head, next, prev]                            *)
(* ------------------------------------------------------------------ *)
insert_lznode(L, h, i) ==
    LET old == At(L.head, h) IN
    [ head |-> Put(L.head, h, i),
      next |-> Put(L.next, i, old),
      prev |-> IF old = LZ_NULL
               THEN Put(L.prev, i, LZ_NULL)
               ELSE Put(Put(L.prev, i, LZ_NULL), old, i) ]

delete_lznode(L, h, i) ==
    LET n == At(L.next, i)
        p == At(L.prev, i)
    IN
    [ head |-> IF At(L.head, h) = i THEN Put(L.head, h, n) ELSE L.head,
      next |-> IF p # LZ_NULL THEN Put(L.next, p, n) ELSE L.next,
      prev |-> IF n # LZ_NULL THEN Put(L.prev, n, p) ELSE L.prev ]

(* ------------------------------------------------------------------ *)
(* MTF table                                                          *)
(* ------------------------------------------------------------------ *)
alloc_mtf == [k \in 1..MTF_SIZE |-> k - 1] \o <<>>

MtfRank(list, b) == CHOOSE r \in 0..(MTF_SIZE - 1) : list[r + 1] = b

MtfUpdate(list, b) ==
    LET r == MtfRank(list, b) IN
    <<b>> \o SubSeq(list, 1, r) \o SubSeq(list, r + 2, MTF_SIZE)

(* ------------------------------------------------------------------ *)
(* Bit writer                                                         *)
(* ------------------------------------------------------------------ *)
put_ONE == <<1>>
put_ZERO == <<0>>

(* the low n bits of value, most significant first *)
put_nbits(value, n) == [k \in 1..n |-> Shr(value, n - k) % 2]

BitTokens(bits) == [k \in 1..Len(bits) |-> <<"bit", bits[k]>>]

(* ------------------------------------------------------------------ *)
(* Byte reader                                                        *)
(* ------------------------------------------------------------------ *)
(* gfgetc() with n bytes of the file already consumed *)
gfgetc(n) == IF n < Len(infile) THEN infile[n + 1] ELSE EOF

(* ------------------------------------------------------------------ *)
(* The runs explored: a command line and an input file                *)
(* ------------------------------------------------------------------ *)
ShortInputs == SeqsUpTo(Alphabet, MaxLen)

(* files longer than the look-ahead buffer of the smallest window *)
LongInputs ==
    { h \o Zeros(Pow2(MIN_BITS - 1)) \o t :
        h \in {<<>>, <<65>>}, t \in SeqsUpTo(Alphabet, MaxTail) }

NineInputs == { [k \in 1..9 |-> v] : v \in Alphabet }

NoArg == [dash |-> FALSE, n |-> 0]

Runs ==
    (* lzhhf -12 infile outfile *)
    { [argc |-> 4, argv1 |-> [dash |-> TRUE, n |-> MIN_BITS], file |-> f] :
        f \in ShortInputs \cup LongInputs }
    (* lzhhf -7 infile outfile: clamped to 12 *)
    \cup { [argc |-> 4, argv1 |-> [dash |-> TRUE, n |-> 7], file |-> f] :
        f \in SeqsUpTo(Alphabet, 1) }
    (* lzhhf infile outfile: the default window *)
    \cup { [argc |-> 3, argv1 |-> NoArg, file |-> f] : f \in NineInputs }
    (* misuse: wrong argument count, no dash, unparseable -N *)
    \cup { [argc |-> a, argv1 |-> NoArg, file |-> <<>>] : a \in {1, 2, 5} }
    \cup { [argc |-> 4, argv1 |-> [dash |-> d, n |-> 0], file |-> <<>>] :
        d \in BOOLEAN }

NoStep == [L0 |-> 0, len |-> 0, pos |-> 0, buf0 |-> 0, from |-> 0,
           emitted |-> <<>>, byte |-> 0, rank |-> 0, head |-> LZ_NULL,
           visits |-> 0]

(* the state at program start for run r; where: "start" is main() *)
StartState(r, where, codes) ==
    /\ argc = r.argc
    /\ argv1 = r.argv1
    /\ infile = r.file
    /\ pc = where
    /\ exit_status = -1
    /\ failure = ""
    /\ num_POS_BITS = LTCB
    /\ win_BUFSIZE = Shl(1, LTCB)
    /\ win_MASK = 0
    /\ hash_SHIFT = 0
    /\ pat_BUFSIZE = 0
    /\ pat_MASK = 0
    /\ win_buf = <<>>
    /\ pattern = <<>>
    /\ lzhash = <<>>
    /\ lznext = <<>>
    /\ lzprev = <<>>
    /\ win_cnt = 0
    /\ pat_cnt = 0
    /\ buf_cnt = 0
    /\ dpos = [pos |-> 0, len |-> 0]
    /\ mtf_list = <<>>
    /\ fpos = 0
    /\ out = <<>>
    /\ steps = <<>>
    /\ last = NoStep
    /\ code_pair = codes
    /\ code_bits = <<>>

Init == \E r \in Runs : StartState(r, "start", <<0, 0>>)

(* ------------------------------------------------------------------ *)
(* main(): command line, files, allocation                            *)
(* ------------------------------------------------------------------ *)
(* exit(status) or return status from main *)
Exit(status, why) ==
    /\ pc' = "exit"
    /\ exit_status' = status
    /\ failure' = why

(* usage(): print the usage and exit(0) *)
usage == Exit(0, "usage")

(* num_POS_BITS after the -N option, 0 where usage() is called *)
ParsedBits ==
    IF argc = 4
    THEN IF argv1.dash
         THEN IF argv1.n = 0 THEN 0
              ELSE IF argv1.n < MIN_BITS THEN MIN_BITS
              ELSE IF argv1.n > MAX_BITS THEN MAX_BITS
              ELSE argv1.n
         ELSE 0
    ELSE IF argc = 3 THEN num_POS_BITS
    ELSE 0

ParseArgs ==
    /\ pc = "start"
    /\ \/ /\ ParsedBits = 0
          /\ usage
          /\ UNCHANGED num_POS_BITS
       \/ /\ ParsedBits # 0
          /\ num_POS_BITS' = ParsedBits
          /\ pc' = "open_in"
          /\ UNCHANGED <<exit_status, failure>>
    /\ UNCHANGED <<givenVars, bufVars, win_BUFSIZE, win_MASK, hash_SHIFT,
                   pat_BUFSIZE, pat_MASK>>

OpenInput ==
    /\ pc = "open_in"
    /\ \/ Exit(0, "open_in")
       \/ /\ pc' = "open_out"
          /\ UNCHANGED <<exit_status, failure>>
    /\ UNCHANGED <<givenVars, sizeVars, bufVars>>

OpenOutput ==
    /\ pc = "open_out"
    /\ \/ Exit(0, "open_out")
       \/ /\ pc' = "alloc_win"
          /\ UNCHANGED <<exit_status, failure>>
    /\ UNCHANGED <<givenVars, sizeVars, bufVars>>

(* the buffer sizes, then malloc of win_buf; on failure goto halt_prog,
   which returns 0 *)
AllocWindow ==
    /\ pc = "alloc_win"
    /\ win_BUFSIZE' = Shl(1, num_POS_BITS)
    /\ win_MASK' = win_BUFSIZE' - 1
    /\ hash_SHIFT' = num_POS_BITS - 8
    /\ pat_BUFSIZE' = Shr(win_BUFSIZE', 1)
    /\ pat_MASK' = pat_BUFSIZE' - 1
    /\ \/ Exit(0, "alloc_win")
       \/ /\ pc' = "alloc_pat"
          /\ UNCHANGED <<exit_status, failure>>
    /\ UNCHANGED <<givenVars, num_POS_BITS, bufVars>>

(* malloc of pattern, then memset(win_buf, 0, win_BUFSIZE) *)
AllocPattern ==
    /\ pc = "alloc_pat"
    /\ \/ /\ Exit(0, "alloc_pat")
          /\ UNCHANGED <<win_buf, pattern>>
       \/ /\ pc' = "alloc_hash"
          /\ pattern' = Fresh("uninit")
          /\ win_buf' = Fresh("zero")
          /\ UNCHANGED <<exit_status, failure>>
    /\ UNCHANGED <<givenVars, sizeVars, lzhash, lznext, lzprev, win_cnt,
                   pat_cnt, buf_cnt, dpos, mtf_list, fpos, out, steps, last>>

(* a variant of InitLists that sets every link to LZ_NULL and inserts no
   position *)
InitListsEmpty ==
    [ head |-> Fresh("null"), next |-> Fresh("null"), prev |-> Fresh("null") ]

(* The search list after
     for (i = 0; i < win_BUFSIZE; i++) insert_lznode(hash(win_buf,i,..), i)
   on the zero-filled window: every hash is 0, each insert pushes i in
   front of i-1. *)
InitLists ==
    [ head |-> Put(Fresh("null"), WinHash(win_buf, 0), win_BUFSIZE - 1),
      next |-> Fresh("down"),
      prev |-> Fresh("up") ]

(* buf_cnt = fread(pattern, 1, pat_BUFSIZE, gIN) *)
FillCount == IF Len(infile) < pat_BUFSIZE THEN Len(infile) ELSE pat_BUFSIZE

(* alloc_lzhash, the search list, the first fill, the MTF table *)
Initialize ==
    /\ pc = "alloc_hash"
    /\ \/ /\ Exit(0, "alloc_hash")
          /\ UNCHANGED <<lzhash, lznext, lzprev, pattern, buf_cnt, fpos, mtf_list>>
       \/ /\ pc' = "loop"
          /\ lzhash' = InitLists.head
          /\ lznext' = InitLists.next
          /\ lzprev' = InitLists.prev
          /\ buf_cnt' = FillCount
          /\ pattern' = [pattern EXCEPT !.set =
                            [j \in 0..(FillCount - 1) |-> infile[j + 1]]]
          /\ fpos' = FillCount
          /\ mtf_list' = alloc_mtf
          /\ UNCHANGED <<exit_status, failure>>
    /\ UNCHANGED <<givenVars, sizeVars, win_buf, win_cnt, pat_cnt, dpos,
                   out, steps, last>>

(* ------------------------------------------------------------------ *)
(* search()                                                           *)
(* ------------------------------------------------------------------ *)
(* k after  if (k < buf_cnt) while (p[j++ & pat_MASK] == w[(i+k) & win_MASK]
   && (++k) < buf_cnt);  the first offset in lo..hi-1 where look-ahead and
   window at i differ, hi if none (the range is halved to keep the
   evaluation shallow) *)
RECURSIVE ExtendLoop(_, _, _)
ExtendLoop(i, lo, hi) ==
    IF lo >= hi THEN hi
    ELSE IF hi = lo + 1
    THEN IF At(pattern, AndMask(pat_cnt + lo, pat_MASK))
                # At(win_buf, AndMask(i + lo, win_MASK))
         THEN lo ELSE hi
    ELSE LET mid == (lo + hi) \div 2
             k == ExtendLoop(i, lo, mid)
         IN IF k < mid THEN k ELSE ExtendLoop(i, mid, hi)

(* a variant of ContextMatches that starts the right-to-left comparison one
   byte early, at offset len-1, and so never tests the suffix byte *)
ContextMatchesShort(i, len) ==
    \A k \in 0..(len - 1) :
        At(pattern, AndMask(pat_cnt + k, pat_MASK))
            = At(win_buf, AndMask(i + k, win_MASK))

(* the do-while of search(): the look-ahead and the window at candidate i
   agree at offsets len down to 0 (no goto skip_search) *)
ContextMatches(i, len) ==
    \A k \in 0..len :
        At(pattern, AndMask(pat_cnt + k, pat_MASK))
            = At(win_buf, AndMask(i + k, win_MASK))

(* a variant of ExtendFrom that skips the byte after the context *)
ExtendFromSkip(len) == len + 2

(* k = dpos.len+1: the offset the left-to-right extension starts from *)
ExtendFrom(len) == len + 1

(* one pass of the while loop of search() at candidate s.i:
   s = [i, pos, len, m, n, stop, visits], visits counting the passes *)
SearchVisit(s) ==
    LET i == s.i
        context == ContextMatches(i, s.len)
        k == ExtendLoop(i, ExtendFrom(s.len), buf_cnt)
    IN
    IF ~context
    THEN (* skip_search *)
         IF s.m + 1 = FAR_LIST
         THEN [s EXCEPT !.m = s.m + 1, !.stop = TRUE, !.visits = s.visits + 1]
         ELSE [s EXCEPT !.m = s.m + 1, !.i = At(lznext, i),
                        !.stop = (At(lznext, i) = LZ_NULL),
                        !.visits = s.visits + 1]
    ELSE IF k = buf_cnt \/ s.n + 1 = NMATCH
         THEN [s EXCEPT !.pos = i, !.len = k, !.n = s.n + 1, !.stop = TRUE,
                        !.visits = s.visits + 1]
         ELSE IF s.m + 1 = FAR_LIST
              THEN [s EXCEPT !.pos = i, !.len = k, !.n = s.n + 1,
                             !.m = s.m + 1, !.stop = TRUE,
                             !.visits = s.visits + 1]
              ELSE [s EXCEPT !.pos = i, !.len = k, !.n = s.n + 1,
                             !.m = s.m + 1, !.i = At(lznext, i),
                             !.stop = (At(lznext, i) = LZ_NULL),
                             !.visits = s.visits + 1]

(* at most n passes of the while loop (the count is halved to keep the
   evaluation shallow) *)
RECURSIVE SearchLoop(_, _)
SearchLoop(s, n) ==
    IF n = 0 \/ s.stop THEN s
    ELSE IF n = 1 THEN SearchVisit(s)
    ELSE SearchLoop(SearchLoop(s, n \div 2), n - (n \div 2))

(* search(win_buf, pattern) starting from the list head lzhash[h] *)
search(h) ==
    LET s0 == [i |-> At(lzhash, h), pos |-> 0, len |-> 0, m |-> 0, n |-> 0,
               stop |-> (At(lzhash, h) = LZ_NULL), visits |-> 0]
        s == IF buf_cnt > 1 THEN SearchLoop(s0, FAR_LIST) ELSE s0
    IN [pos |-> s.pos, len |-> s.len, visits |-> s.visits]

(* the four look-ahead slots the hash of search() reads *)
HashSlots == [k \in 0..3 |-> AndMask(pat_cnt + k, pat_MASK)]

(* what the never-written slots among them may hold *)
UninitReads ==
    IF \E k \in 0..3 : At(pattern, HashSlots[k]) = UNINIT
    THEN [0..3 -> Alphabet]
    ELSE {[k \in 0..3 |-> 0]}

(* hash(p, pat_cnt, pat_MASK, win_MASK), reading u[k] from a slot never written *)
PatHash(u) ==
    LET b(k) == IF At(pattern, HashSlots[k]) = UNINIT THEN u[k]
                ELSE At(pattern, HashSlots[k])
    IN Hash4(b(0), b(1), b(2), b(3), hash_SHIFT, win_MASK)

(* the hash values search() may compute *)
PatHashes == { PatHash(u) : u \in UninitReads }

(* a variant of LookAheadNotEmpty that also enters the loop at zero *)
LookAheadNotNegative == buf_cnt >= 0

(* while ( buf_cnt > 0 ) *)
LookAheadNotEmpty == buf_cnt > 0

(* dpos = search( win_buf, pattern ) *)
Search ==
    /\ pc = "loop"
    /\ LookAheadNotEmpty
    /\ \E h \in PatHashes :
        \E found \in {search(h)} :
            /\ dpos' = [pos |-> found.pos, len |-> found.len]
            /\ last' = [last EXCEPT !.head = h, !.visits = found.visits]
    /\ pc' = "encode"
    /\ UNCHANGED <<givenVars, exit_status, failure, sizeVars, win_buf,
                   pattern, lzhash, lznext, lzprev, win_cnt, pat_cnt, buf_cnt,
                   mtf_list, fpos, out, steps>>

(* ------------------------------------------------------------------ *)
(* The step: prefix bits in main(), then put_codes()                  *)
(* ------------------------------------------------------------------ *)
Ones(n) == [k \in 1..n |-> 1]

(* a variant of MainPrefix whose first test is len >= MIN_LEN *)
MainPrefixAtLeast(len) ==
    IF len >= MIN_LEN THEN put_ONE
    ELSE IF len = MIN_LEN THEN put_ZERO \o put_ONE
    ELSE put_ZERO \o put_ZERO

(* the prefix bits main() sends for a match length *)
MainPrefix(len) ==
    IF len > MIN_LEN THEN put_ONE
    ELSE IF len = MIN_LEN THEN put_ZERO \o put_ONE
    ELSE put_ZERO \o put_ZERO

(* the folded unary code of len_CODE *)
LenCodeBits(len_CODE) ==
    Ones(Shr(len_CODE, MFOLD))
        \o put_nbits(Shl(len_CODE % Shl(1, MFOLD), 1), MFOLD + 1)

(* the bits put_codes() sends for a match of length len >= MIN_LEN at pos *)
MatchBits(pos, len) ==
    (IF len > MIN_LEN THEN LenCodeBits(len - (MIN_LEN + 1)) ELSE <<>>)
        \o put_nbits(pos, num_POS_BITS)

(* the length put_codes() slides by *)
SlideLen(len) == IF len >= MIN_LEN THEN len ELSE 1

(* the left-most string index k whose hash the new bytes change *)
SlideStart ==
    IF win_cnt - (HASH_BYTES_N - 1) < 0
    THEN win_BUFSIZE + (win_cnt - (HASH_BYTES_N - 1))
    ELSE win_cnt - (HASH_BYTES_N - 1)

(* a variant of SpanCount that leaves out the HASH_BYTES_N-1 strings that
   reach into the new bytes from the left *)
SpanCountShort(len) == len

(* the number of strings removed and rehashed *)
SpanCount(len) == len + (HASH_BYTES_N - 1)

(* for (i = lo; i < hi; i++)
     delete_lznode(hash(win_buf,(k+i),..), (k+i) & win_MASK)
   on the window w.  st = [L, i]: the lists and the loop counter; the range
   is halved to keep the evaluation shallow, and reading the counter makes
   the first half run before the second *)
RECURSIVE DeleteLoop(_, _, _, _, _)
DeleteLoop(st, w, k, lo, hi) ==
    IF lo >= hi \/ st.i # lo THEN st
    ELSE IF hi = lo + 1
    THEN [L |-> delete_lznode(st.L, WinHash(w, k + lo), AndMask(k + lo, win_MASK)),
          i |-> lo + 1]
    ELSE LET mid == (lo + hi) \div 2 IN
         DeleteLoop(DeleteLoop(st, w, k, lo, mid), w, k, mid, hi)

DeleteSpan(L, w, k, count) == DeleteLoop([L |-> L, i |-> 0], w, k, 0, count).L

(* for (i = lo; i < hi; i++)
     insert_lznode(hash(win_buf,(k+i),..), (k+i) & win_MASK) *)
RECURSIVE InsertLoop(_, _, _, _, _)
InsertLoop(st, w, k, lo, hi) ==
    IF lo >= hi \/ st.i # lo THEN st
    ELSE IF hi = lo + 1
    THEN [L |-> insert_lznode(st.L, WinHash(w, k + lo), AndMask(k + lo, win_MASK)),
          i |-> lo + 1]
    ELSE LET mid == (lo + hi) \div 2 IN
         InsertLoop(InsertLoop(st, w, k, lo, mid), w, k, mid, hi)

InsertSpan(L, w, k, count) == InsertLoop([L |-> L, i |-> 0], w, k, 0, count).L

(* the byte read from look-ahead slot j; u is what a slot that was never
   written holds *)
ReadPattern(j, u) == IF At(pattern, j) = UNINIT THEN u ELSE At(pattern, j)

(* what the never-written slots among the len slots put_codes() reads may
   hold *)
StepGarbage(len) ==
    IF \E i \in 0..(len - 1) :
           At(pattern, AndMask(pat_cnt + i, pat_MASK)) = UNINIT
    THEN Alphabet ELSE {0}

(* win_buf[(win_cnt+i) & win_MASK] = pattern[(pat_cnt+i) & pat_MASK]
   for i in lo..hi-1;  st = [w, i] *)
RECURSIVE WriteLoop(_, _, _, _)
WriteLoop(st, u, lo, hi) ==
    IF lo >= hi \/ st.i # lo THEN st
    ELSE IF hi = lo + 1
    THEN [w |-> Put(st.w, AndMask(win_cnt + lo, win_MASK),
                    ReadPattern(AndMask(pat_cnt + lo, pat_MASK), u)),
          i |-> lo + 1]
    ELSE LET mid == (lo + hi) \div 2 IN
         WriteLoop(WriteLoop(st, u, lo, mid), u, mid, hi)

(* the window after  i = len; while (i--) ...  (the slots are distinct, so
   the order of the writes does not matter) *)
WindowWrite(len, u) == WriteLoop([w |-> win_buf, i |-> 0], u, 0, len).w

(* a variant of RefillLoop that stores each byte one slot too far *)
RECURSIVE RefillLoopShifted(_, _, _)
RefillLoopShifted(st, lo, hi) ==
    IF lo >= hi \/ st.i < lo THEN st
    ELSE IF hi = lo + 1
    THEN IF gfgetc(fpos + lo) = EOF THEN st
         ELSE [p |-> Put(st.p, AndMask(pat_cnt + lo + 1, pat_MASK),
                         gfgetc(fpos + lo)),
               i |-> lo + 1]
    ELSE LET mid == (lo + hi) \div 2 IN
         RefillLoopShifted(RefillLoopShifted(st, lo, mid), mid, hi)

(* for (i = lo; i < hi; i++) if ((k = gfgetc()) != EOF) pattern[(pat_cnt+i)
   & pat_MASK] = k; else break;   st = [p, i], i the loop counter, which
   stays behind lo once EOF was read *)
RECURSIVE RefillLoop(_, _, _)
RefillLoop(st, lo, hi) ==
    IF lo >= hi \/ st.i < lo THEN st
    ELSE IF hi = lo + 1
    THEN IF gfgetc(fpos + lo) = EOF THEN st
         ELSE [p |-> Put(st.p, AndMask(pat_cnt + lo, pat_MASK),
                         gfgetc(fpos + lo)),
               i |-> lo + 1]
    ELSE LET mid == (lo + hi) \div 2 IN
         RefillLoop(RefillLoop(st, lo, mid), mid, hi)

(* [p, i]: the look-ahead after the refill loop and the count i it ends with *)
Refill(len) == RefillLoop([p |-> pattern, i |-> 0], 0, len)

(* the counters after put_codes() slid by len and read got bytes *)
NewBufCnt(len, got) == buf_cnt - (len - got)
NewWinCnt(len) == AndMask(win_cnt + len, win_MASK)
(* a variant of NewPatCnt that wraps at the window size *)
NewPatCntWide(len) == AndMask(pat_cnt + len, win_MASK)

NewPatCnt(len) == AndMask(pat_cnt + len, pat_MASK)

Encode ==
    /\ pc = "encode"
    /\ LET len0 == dpos.len
           len == SlideLen(len0)
           k == SlideStart
           Lists == [head |-> lzhash, next |-> lznext, prev |-> lzprev]
       IN
       \E u \in StepGarbage(len) :
       \E byte \in {ReadPattern(pat_cnt, u)},
          removed \in {DeleteSpan(Lists, win_buf, k, SpanCount(len))},
          window \in {WindowWrite(len, u)},
          refilled \in {Refill(len)} :
       \E rank \in {MtfRank(mtf_list, byte)},
          linked \in {InsertSpan(removed, window, k, SpanCount(len))} :
       \E emitted \in {BitTokens(MainPrefix(len0))
                         \o (IF len0 >= MIN_LEN
                             THEN BitTokens(MatchBits(dpos.pos, len0))
                             ELSE << <<"fgk", rank>> >>)} :
       /\ out' = out \o emitted
       /\ dpos' = [dpos EXCEPT !.len = len]
       /\ mtf_list' = IF len0 >= MIN_LEN THEN mtf_list
                      ELSE MtfUpdate(mtf_list, byte)
       /\ win_buf' = window
       /\ lzhash' = linked.head
       /\ lznext' = linked.next
       /\ lzprev' = linked.prev
       /\ pattern' = refilled.p
       /\ fpos' = fpos + refilled.i
       /\ buf_cnt' = NewBufCnt(len, refilled.i)
       /\ win_cnt' = NewWinCnt(len)
       /\ pat_cnt' = NewPatCnt(len)
       /\ steps' = Append(steps,
                     IF len0 >= MIN_LEN
                     THEN [lit |-> FALSE, byte |-> 0, pos |-> dpos.pos, len |-> len]
                     ELSE [lit |-> TRUE, byte |-> byte, pos |-> 0, len |-> 1])
       /\ last' = [L0 |-> len0, len |-> len, pos |-> dpos.pos, buf0 |-> buf_cnt,
                   from |-> last.from + last.len, emitted |-> emitted,
                   byte |-> byte, rank |-> rank, head |-> NoStep.head,
                   visits |-> NoStep.visits]
    /\ pc' = "loop"
    /\ UNCHANGED <<givenVars, exit_status, failure, sizeVars>>

(* the loop ends: flush, rewrite the stamp, return 0 *)
Finish ==
    /\ pc = "loop"
    /\ ~LookAheadNotEmpty
    /\ Exit(0, "")
    /\ UNCHANGED <<givenVars, sizeVars, bufVars>>

Next ==
    \/ ParseArgs
    \/ OpenInput
    \/ OpenOutput
    \/ AllocWindow
    \/ AllocPattern
    \/ Initialize
    \/ Search
    \/ Encode
    \/ Finish

Spec == Init /\ [][Next]_vars

(* the points of main() the actions stand at *)
ProgramPoints ==
    {"start", "open_in", "open_out", "alloc_win", "alloc_pat", "alloc_hash",
     "loop", "encode", "exit"}

(* control moves on from a point before the exit *)
Advance == pc # "exit" /\ \E p \in ProgramPoints \ {pc} : pc' = p

(* the program runs on: it is a single thread that nothing suspends. Every
   action of Next moves pc and one of them is enabled at every point before
   the exit, so weak fairness of Next is weak fairness of the move of pc. *)
FairSpec == Spec /\ WF_pc(Advance)

(* ------------------------------------------------------------------ *)
(* The length code of put_codes() on its own: every pair of codes     *)
(* ------------------------------------------------------------------ *)
IdleRun == [argc |-> 3, argv1 |-> NoArg, file |-> <<>>]

InitLen ==
    \E a \in 0..MaxCode, b \in 0..MaxCode :
        StartState(IdleRun, "len_code", <<a, b>>)

EmitLenCodes ==
    /\ pc = "len_code"
    /\ pc' = "len_done"
    /\ code_bits' = <<LenCodeBits(code_pair[1]), LenCodeBits(code_pair[2])>>
    /\ UNCHANGED <<argc, argv1, infile, code_pair, exit_status, failure,
                   sizeVars, bufVars>>

SpecLen == InitLen /\ [][EmitLenCodes]_vars

(* ------------------------------------------------------------------ *)
(* Properties                                                         *)
(* ------------------------------------------------------------------ *)
(* the encoder is between two steps, having encoded at least one *)
AfterStep == pc = "loop" /\ steps # <<>>

(* the low n bits of v, most significant first, each as an output token *)
RefBits(v, n) == [k \in 1..n |-> <<"bit", (v \div Pow2(n - k)) % 2>>]

(* the folded unary code of c: c \div 4 one-bits, then the 3-bit field
   (c mod 4) * 2 *)
RefLenCode(c) ==
    [k \in 1..(c \div 4) |-> <<"bit", 1>>] \o RefBits((c % 4) * 2, 3)

(* the literal bytes of the steps before the last one, oldest first *)
RECURSIVE LiteralsBefore(_)
LiteralsBefore(n) ==
    IF n = 0 THEN <<>>
    ELSE IF steps[n].lit THEN Append(LiteralsBefore(n - 1), steps[n].byte)
    ELSE LiteralsBefore(n - 1)

(* the move-to-front rank of byte b after the literals hist: a byte seen
   before has as many bytes in front of it as distinct bytes came after its
   last occurrence; a byte never seen has moved back by one for every
   distinct larger byte seen *)
RefRank(b, hist) ==
    LET seen == { hist[k] : k \in 1..Len(hist) }
        lastAt == CHOOSE k \in 1..Len(hist) :
                      hist[k] = b /\ \A m \in (k + 1)..Len(hist) : hist[m] # b
    IN IF b \in seen
       THEN Cardinality({ hist[m] : m \in (lastAt + 1)..Len(hist) })
       ELSE b + Cardinality({ c \in seen : c > b })

(* C2: in every step the prefix is fixed by the length L that search()
   returned: 1, the folded unary code of L-5 and a B-bit position when L > 4;
   0,1 and a B-bit position when L = 4; 0,0 and the FGK code of the
   move-to-front rank of the look-ahead byte when L < 4, and then the step
   slides by one byte. *)
C2_FramingByLength ==
    AfterStep =>
        /\ last.L0 > MIN_LEN =>
              /\ last.emitted = << <<"bit", 1>> >>
                                  \o RefLenCode(last.L0 - 5)
                                  \o RefBits(last.pos, num_POS_BITS)
              /\ last.len = last.L0
        /\ last.L0 = MIN_LEN =>
              /\ last.emitted = << <<"bit", 0>>, <<"bit", 1>> >>
                                  \o RefBits(last.pos, num_POS_BITS)
              /\ last.len = last.L0
        /\ last.L0 < MIN_LEN =>
              /\ last.byte = infile[last.from + 1]
              /\ last.emitted =
                    << <<"bit", 0>>, <<"bit", 0>>,
                       <<"fgk", RefRank(last.byte,
                                        LiteralsBefore(Len(steps) - 1))>> >>
              /\ last.len = 1
              /\ steps[Len(steps)].lit

(* a step that found a match of exactly MIN_LEN bytes, after a literal *)
C2_Witness ==
    /\ AfterStep
    /\ last.L0 = MIN_LEN
    /\ \E n \in 1..(Len(steps) - 1) : steps[n].lit /\ steps[n].byte # 0

(* C4: the counters stay in range: 0 <= win_cnt < W, 0 <= pat_cnt < P,
   0 <= buf_cnt <= P with W = 2^B and P = W/2, and put_codes() never makes
   buf_cnt larger than it was before the step. *)
C4_CounterRanges ==
    LET W == Pow2(num_POS_BITS)
        P == W \div 2
    IN /\ 0 <= win_cnt /\ win_cnt < W
       /\ 0 <= pat_cnt /\ pat_cnt < P
       /\ 0 <= buf_cnt /\ buf_cnt <= P
       /\ AfterStep => buf_cnt <= last.buf0

(* a step that slid by the whole look-ahead buffer, so that pat_cnt wrapped,
   and still left a byte to encode *)
C4_Witness ==
    /\ AfterStep
    /\ last.len = pat_BUFSIZE
    /\ pat_cnt = 0
    /\ win_cnt = pat_BUFSIZE
    /\ buf_cnt = 1

(* C5: a run that fails (misuse of the command line, a file that cannot be
   opened, a buffer that cannot be allocated) ends with an exit status other
   than 0, and only a successful compression ends with 0. *)
C5_FailureExitsNonzero ==
    pc = "exit" => (failure # "" <=> exit_status # 0)

(* C3: the length code is self-delimiting: of the bit strings put_codes()
   sends for two distinct length codes, neither is a prefix of the other. *)
C3_PrefixFree ==
    (pc = "len_done" /\ code_pair[1] # code_pair[2]) =>
        LET a == code_bits[1]
            b == code_bits[2]
        IN ~(Len(a) <= Len(b) /\ a = SubSeq(b, 1, Len(a)))

(* the walk of one list: n more steps at most from st = [i, cnt], counting
   the positions passed *)
RECURSIVE ChainWalk(_, _)
ChainWalk(st, n) ==
    IF n = 0 \/ st.i = LZ_NULL THEN st
    ELSE IF n = 1
    THEN [i |-> At(lznext, st.i), cnt |-> st.cnt + 1]
    ELSE ChainWalk(ChainWalk(st, n \div 2), n - (n \div 2))

(* what a finished walk w leaves: the count so far, and that the walk ended
   at LZ_NULL *)
ChainEnd(w) == [cnt |-> w.cnt, ok |-> w.i = LZ_NULL]

(* the walks of the lists with heads in H, one after the other: the count
   runs on, and ok says every walk ended at LZ_NULL *)
RECURSIVE ChainsWalk(_, _)
ChainsWalk(H, acc) ==
    IF H = {} \/ ~acc.ok THEN acc
    ELSE LET h == CHOOSE x \in H : TRUE
         IN ChainsWalk(H \ {h},
                       ChainEnd(ChainWalk([i |-> At(lzhash, h), cnt |-> acc.cnt],
                                          win_BUFSIZE - acc.cnt)))

(* C6: between steps every window position is linked in exactly one list,
   the one of the hash of the four window bytes at it: the links are
   mutually consistent, a position has the hash of its predecessor, every
   list starts at a position without predecessor whose hash is the list's,
   and the lists together hold all W positions. *)
C6_ChainsConsistent ==
    pc = "loop" =>
        /\ \A q \in 0..win_MASK :
              /\ At(lznext, q) # LZ_NULL => At(lzprev, At(lznext, q)) = q
              /\ At(lzprev, q) # LZ_NULL =>
                    /\ At(lznext, At(lzprev, q)) = q
                    /\ WinHash(win_buf, At(lzprev, q)) = WinHash(win_buf, q)
        /\ \A h \in 0..win_MASK :
              At(lzhash, h) # LZ_NULL =>
                    /\ At(lzprev, At(lzhash, h)) = LZ_NULL
                    /\ WinHash(win_buf, At(lzhash, h)) = h
        /\ \A all \in {ChainsWalk({ h \in 0..win_MASK : At(lzhash, h) # LZ_NULL },
                                  [cnt |-> 0, ok |-> TRUE])} :
              all.ok /\ all.cnt = win_BUFSIZE

(* after a step that wrote a nonzero byte at the start of the window and
   one that rehashed across the end of the window *)
C6_Witness ==
    /\ AfterStep
    /\ Len(steps) >= 2
    /\ At(win_buf, 0) # 0
    /\ Cardinality({ h \in 0..win_MASK : At(lzhash, h) # LZ_NULL }) >= 3

(* C7: between steps the buf_cnt look-ahead bytes from pat_cnt on (mod P)
   are the input bytes that follow the bytes already encoded; the bytes read
   from the file are those encoded plus those in the look-ahead, and the
   look-ahead is short of P bytes only when the file is exhausted. *)
C7_LookAheadValid ==
    pc = "loop" =>
        LET encoded == last.from + last.len IN
        /\ \A j \in 0..(buf_cnt - 1) :
              At(pattern, AndMask(pat_cnt + j, pat_MASK))
                  = infile[encoded + j + 1]
        /\ encoded + buf_cnt = fpos
        /\ fpos <= Len(infile)
        /\ buf_cnt < pat_BUFSIZE => fpos = Len(infile)

(* a refill that met the end of the file: the step slid by a full look-ahead
   buffer and one byte could still be read *)
C7_Witness ==
    /\ AfterStep
    /\ fpos > pat_BUFSIZE
    /\ fpos = Len(infile)
    /\ buf_cnt >= 1
    /\ buf_cnt < last.len

(* the look-ahead byte at offset k from pat_cnt, the window byte at k from c *)
AheadByte(k) == At(pattern, AndMask(pat_cnt + k, pat_MASK))
WindowByte(c, k) == At(win_buf, AndMask(c + k, win_MASK))

(* the length of the common prefix of the look-ahead and the window at c,
   at most buf_cnt *)
RefCpl(c) ==
    CHOOSE k \in 0..buf_cnt :
        /\ k = buf_cnt \/ AheadByte(k) # WindowByte(c, k)
        /\ \A j \in 0..(k - 1) : AheadByte(j) = WindowByte(c, j)

(* the first n positions of the list that holds position i, from i on *)
RECURSIVE RefWalk(_, _)
RECURSIVE RefWalkOn(_, _, _)
RefWalk(i, n) ==
    IF n = 0 \/ i = LZ_NULL THEN <<>>
    ELSE IF n = 1 THEN <<i>>
    ELSE RefWalkOn(RefWalk(i, n \div 2), n \div 2, n - (n \div 2))

RefWalkOn(a, half, rest) ==
    IF Len(a) < half THEN a
    ELSE a \o RefWalk(At(lznext, a[Len(a)]), rest)

(* n is largest in S *)
IsMax(n, S) == n \in S /\ \A y \in S : y <= n

(* the number of positions of cpls that are longer than all before them *)
Improvements(cpls) ==
    Cardinality({ v \in { cpls[j] : j \in 1..Len(cpls) } :
        v > 0 /\ \E j \in 1..Len(cpls) :
                    /\ cpls[j] = v
                    /\ \A i \in 1..(j - 1) : cpls[i] < v })

(* what search() returned, against the positions visited and the common
   prefix length at each *)
SearchAgrees(visited, cpls) ==
    LET V == Len(visited)
        lens == { cpls[j] : j \in 1..V } \cup {0}
    IN
    /\ V = last.visits
    /\ IsMax(dpos.len, lens)
    /\ IF dpos.len = 0 THEN dpos.pos = 0
       ELSE \E j \in 1..V :
               /\ visited[j] = dpos.pos
               /\ cpls[j] = dpos.len
               /\ \A i \in 1..(j - 1) : cpls[i] < dpos.len
    (* no reason to stop before the last visit *)
    /\ \A j \in 1..(V - 1) : cpls[j] < buf_cnt
    /\ V > 0 => Improvements(SubSeq(cpls, 1, V - 1)) < NMATCH
    (* a reason to stop at the last visit *)
    /\ \/ buf_cnt <= 1 /\ V = 0
       \/ V = 0 /\ At(lzhash, last.head) = LZ_NULL
       \/ V > 0 /\ At(lznext, visited[V]) = LZ_NULL
       \/ V = FAR_LIST
       \/ V > 0 /\ cpls[V] = buf_cnt /\ dpos.pos = visited[V]
       \/ V > 0 /\ Improvements(cpls) = NMATCH /\ dpos.pos = visited[V]

(* the common prefix lengths at the positions a *)
RefCpls(a) == [j \in 1..Len(a) |-> RefCpl(a[j])] \o <<>>

SearchAgreesAt(visited) == SearchAgrees(visited, RefCpls(visited))

(* C8: what search() returns: len is the longest common prefix, capped at
   buf_cnt, of the look-ahead with the window at the list positions visited
   before the search stopped (end of the list, FAR_LIST visits, NMATCH
   improvements, len = buf_cnt); pos is the first visited position that
   attains it; both are 0 when buf_cnt <= 1 or nothing visited matches. *)
C8_SearchResult ==
    pc = "encode" =>
        SearchAgreesAt(RefWalk(At(lzhash, last.head), last.visits))

(* a search cut off after FAR_LIST visits in which the first two positions
   tie at a length below buf_cnt: the first visited is returned *)
C8_Witness ==
    /\ pc = "encode"
    /\ last.visits = FAR_LIST
    /\ dpos.len >= MIN_LEN
    /\ dpos.len < buf_cnt
    /\ dpos.pos = At(lzhash, last.head)
    /\ RefCpl(At(lznext, dpos.pos)) = dpos.len

(* The mirror decoder: d = [w, c, o], the window, its write position and the
   bytes produced so far. *)
(* byte k of what step x produces, read in the window w0 *)
StepByte(x, w0, k) ==
    IF x.lit THEN x.byte ELSE At(w0, AndMask(x.pos + k, win_MASK))

(* the window st.w with the bytes lo..hi-1 of step x written from position
   c on, the bytes being read in w0, the window as it was before the step *)
RECURSIVE MirrorWrite(_, _, _, _, _, _)
MirrorWrite(st, x, w0, c, lo, hi) ==
    IF lo >= hi \/ st.i # lo THEN st
    ELSE IF hi = lo + 1
    THEN [w |-> Put(st.w, AndMask(c + lo, win_MASK), StepByte(x, w0, lo)),
          i |-> lo + 1]
    ELSE LET mid == (lo + hi) \div 2 IN
         MirrorWrite(MirrorWrite(st, x, w0, c, lo, mid), x, w0, c, mid, hi)

MirrorStep(d, x) ==
    [ w |-> MirrorWrite([w |-> d.w, i |-> 0], x, d.w, d.c, 0, x.len).w,
      c |-> AndMask(d.c + x.len, win_MASK),
      o |-> d.o \o [k \in 1..x.len |-> StepByte(x, d.w, k - 1)] ]

(* the decoder after the first n steps *)
RECURSIVE MirrorDecode(_)
MirrorDecode(n) ==
    IF n = 0 THEN [w |-> Fresh("zero"), c |-> 0, o |-> <<>>]
    ELSE MirrorStep(MirrorDecode(n - 1), steps[n])

(* C1: when the encoder has finished, the mirror decoder run on its steps
   (a literal byte, or a match (pos, len) with len >= MIN_LEN copied from
   the window as it was before the step) gives back the input; the decoder
   starts from a zero-filled window of 2^B bytes at position 0. *)
C1_RoundTrip ==
    (pc = "exit" /\ failure = "") =>
        /\ \A n \in 1..Len(steps) :
              \/ steps[n].lit /\ steps[n].len = 1
              \/ ~steps[n].lit /\ steps[n].len >= MIN_LEN
        /\ MirrorDecode(Len(steps)).o = infile

(* a finished run with a literal and then a match that copies bytes the
   decoder wrote itself *)
C1_Witness ==
    /\ pc = "exit"
    /\ failure = ""
    /\ Len(steps) = 2
    /\ steps[1].lit /\ steps[1].byte # 0
    /\ ~steps[2].lit
    /\ \E k \in 0..(steps[2].len - 1) :
          AndMask(steps[2].pos + k, win_MASK) = 0

(* the first step of a run with B = 17 on nine bytes, all equal *)
NineFirstStep ==
    /\ AfterStep
    /\ Len(steps) = 1
    /\ num_POS_BITS = 17
    /\ Len(infile) = 9
    /\ \A k \in 1..9 : infile[k] = infile[1]

(* the first step sent 1, the code of length 9 (one 1, then 000) and a
   17-bit position *)
NineMatchSent ==
    /\ last.L0 = 9
    /\ last.emitted =
          << <<"bit", 1>>, <<"bit", 1>>, <<"bit", 0>>, <<"bit", 0>>,
             <<"bit", 0>> >> \o RefBits(last.pos, 17)
    /\ Len(last.emitted) = 5 + 17

(* C9 as stated: on nine identical bytes of any value, with B = 17, the
   first step finds a match of length 9 and sends 1, then 1 000, then a
   17-bit position. *)
C9_NineIdentical == NineFirstStep => NineMatchSent

(* C9, amended: this holds on nine zero bytes; on nine equal bytes of
   another value the first step finds no match and sends a literal. *)
C9_NineZeros ==
    NineFirstStep =>
        IF infile[1] = 0 THEN NineMatchSent
        ELSE /\ last.L0 = 0
             /\ steps[1].lit
             /\ steps[1].byte = infile[1]

(* the first step on nine zero bytes, which matched the window at its last
   position *)
C9_Witness ==
    /\ NineFirstStep
    /\ infile[1] = 0
    /\ last.L0 = 9
    /\ last.pos = win_BUFSIZE - 1

(* what holds of every step: it slides by 1..buf_cnt bytes, no more bytes
   are encoded than the input has, so there are no more steps than input
   bytes; on an empty input there is no step and no output *)
StepBounds ==
    /\ AfterStep =>
          /\ 1 <= last.len
          /\ last.len <= last.buf0
          /\ last.from + last.len <= Len(infile)
    /\ Len(steps) <= Len(infile)
    /\ infile = <<>> => steps = <<>> /\ out = <<>>

(* C10: the main loop ends: every step slides by a length in 1..buf_cnt,
   the steps are at most as many as the input bytes, an empty input gives
   no step, and once in the loop the program reaches its end with
   buf_cnt = 0. *)
C10_Terminates ==
    /\ []StepBounds
    /\ (pc = "loop") ~> (pc = "exit" /\ buf_cnt = 0)

(* a finished run of several steps, fewer than the input has bytes *)
C10_Witness ==
    /\ pc = "exit"
    /\ failure = ""
    /\ buf_cnt = 0
    /\ Len(steps) >= 2
    /\ Len(steps) < Len(infile)

====
